---- MODULE Spec2Model ----
(***************************************************************************)
(* Bounded wrong-path speculation bookkeeping of specvex.py:               *)
(* SimEngineSpecVEX._handle_statement, SpecState, SpecQueue,               *)
(* tickSpecState and handleFences.                                         *)
(*                                                                         *)
(* A context is one angr state together with its `spec` plugin.  The       *)
(* deque behind a SpecQueue is a heap object, reached through a reference, *)
(* so that SpecQueue.copy's fresh deque is told apart from an alias.       *)
(* Conditions are opaque to this code; the solver is modelled on the       *)
(* domain {true, false, x, Not(x)} of one symbol x, which has trivially    *)
(* true guards, conditions satisfiable alone and contradictory together.   *)
(***************************************************************************)
EXTENDS Integers, Sequences, FiniteSets, TLC

\* ---------------------------------------------------------------- bounds
\* Spec: forking contexts, every interleaving
MaxCtx == 2
MaxIns == 2
MaxWindow == 1
MaxHist == 2
\* Spec1: one context, longer runs
MaxIns1 == 4
MaxWindow1 == 3
MaxHist1 == 2
MaxAddr == 1
MaxLen == 2
\* SpecSMC: IMarks by address
MaxHistSMC == 1
\* SpecC: a tree of forks
MaxCtxC == 4
\* SpecD: one context of one window size up to a fence
WindowD == 4
MaxInsD == 5
MaxHistD == 3

\* ageOfOldest's None (an age is never negative)
None == -1

VARIABLES ctx, deques, last

vars == <<ctx, deques, last>>

\* the slots contexts live in
Slots == DOMAIN ctx
\* deque references: one per slot, and 0 for the deque of a successor the
\* model does not follow
Refs == DOMAIN deques
Addrs == 0..MaxAddr

\* ------------------------------------------------------------ conditions
\* v = 0: a Boolean constant (claripy.true / claripy.false); v in Symbols:
\* the symbol v, plain (pos) or negated.
Symbols == {1}
Cond == [v : {0} \cup Symbols, pos : BOOLEAN]
TrueC == [v |-> 0, pos |-> TRUE]
FalseC == [v |-> 0, pos |-> FALSE]

\* claripy.Not(branchcond)
Not(c) == [c EXCEPT !.pos = ~@]

\* state.solver.is_true(e): the cheap check, true only of the constant true
is_true(c) == c = TrueC

\* state.solver.satisfiable() over the constraints added so far
satisfiable(cs) ==
    /\ \A i \in 1..Len(cs) : cs[i] # FalseC
    /\ \A i, j \in 1..Len(cs) :
          ~(cs[i].v # 0 /\ cs[i].v = cs[j].v /\ cs[i].pos # cs[j].pos)

\* state.add_constraints(*conds)
add_constraints(s, conds) == [s EXCEPT !.constraints = @ \o conds]

\* -------------------------------------------------------------- SpecQueue
\* SpecQueue.__init__: the counter and a reference to a deque
SpecQueue(ins_executed, q) == [ins_executed |-> ins_executed, q |-> q]

\* (mutant) the copy shares the original's deque
dequeAlias(ref, fresh) == ref

\* self.q.copy(): the reference of the deque the copy holds
dequeCopy(ref, fresh) == fresh

\* SpecQueue.copy
SpecQueue_copy(sq, fresh) == SpecQueue(sq.ins_executed, dequeCopy(sq.q, fresh))

\* (mutant) the queue's counter left behind
SpecQueue_tickMissing(sq) == sq

\* SpecQueue.tick
SpecQueue_tick(sq) == [sq EXCEPT !.ins_executed = @ + 1]

\* (mutant) appendleft
SpecQueue_appendleft(sq, dq, thing) == <<<<thing, sq.ins_executed>>>> \o dq

\* SpecQueue.append, on the deque's contents
SpecQueue_append(sq, dq, thing) == Append(dq, <<thing, sq.ins_executed>>)

\* SpecQueue.ageOfOldest
ageOfOldest(sq, dq) ==
    IF dq # <<>> THEN sq.ins_executed - dq[1][2] ELSE None

\* SpecQueue.popOldest: the thing returned and the deque left; popleft on an
\* empty deque raises (err)
popOldest(dq) ==
    IF dq = <<>> THEN [thing |-> TrueC, dq |-> dq, err |-> TRUE]
    ELSE [thing |-> dq[1][1], dq |-> Tail(dq), err |-> FALSE]

\* (mutant) one pop instead of the drain
popAllOnce(dq) ==
    IF dq = <<>> THEN [things |-> <<>>, dq |-> <<>>]
    ELSE [things |-> <<dq[1][1]>>, dq |-> Tail(dq)]

\* SpecQueue.popAll, consumed whole by list(): the things in order, and the
\* deque left
popAll(dq) == [things |-> [i \in 1..Len(dq) |-> dq[i][1]], dq |-> <<>>]

\* -------------------------------------------------------------- SpecState
\* SpecState.__init__
SpecState(spec_window_size, ins, conditionals) ==
    [window |-> spec_window_size, ins_executed |-> ins,
     conditionals |-> conditionals, mispredicted |-> FALSE]

\* (mutant) the tick starts the misprediction flag afresh
SpecState_tickReset(s) ==
    [s EXCEPT !.ins_executed = @ + 1,
              !.conditionals = [@ EXCEPT !.ins_executed = @ + 1],
              !.mispredicted = FALSE]

\* (mutant) the tick counts on the queue alone
SpecState_tickQueueOnly(s) == [s EXCEPT !.conditionals = SpecQueue_tick(@)]

\* SpecState.tick
SpecState_tick(s) ==
    [s EXCEPT !.ins_executed = @ + 1,
              !.conditionals = SpecQueue_tick(@)]

\* SpecState.copy: a new SpecState around a copy of the queue
SpecState_copy(sp, fresh) ==
    SpecState(sp.window, sp.ins_executed, SpecQueue_copy(sp.conditionals, fresh))

\* ------------------------------------------------------------- contexts
\* An angr state as far as this engine reads it: its spec plugin, the
\* solver's constraints, whether LAZY_SOLVES is among its options, whether
\* _handle_statement has reported its path dead-ended, (history) the
\* conditions appended to its queue so far, its ancestors' included, and the
\* popAll generator over its queue that a consumer holds, if any; and whether
\* the caller of _handle_statement stops dispatching statements on the
\* context once a call has returned False (stops).
\* no generator held; a held one is suspended at its yield and has yielded
\* things so far
NoGen == [suspended |-> FALSE, things |-> <<>>]

NoCtx ==
    [live |-> FALSE, spec |-> SpecState(0, 0, SpecQueue(0, 0)),
     constraints |-> <<>>, lazy |-> FALSE, deadended |-> FALSE, hist |-> <<>>,
     gen |-> NoGen, stops |-> TRUE]

NewState(w, lz, ref) ==
    [live |-> TRUE, spec |-> SpecState(w, 0, SpecQueue(0, ref)),
     constraints |-> <<>>, lazy |-> lz, deadended |-> FALSE, hist |-> <<>>,
     gen |-> NoGen, stops |-> TRUE]

\* state.copy(): every plugin is copied; the spec plugin by SpecState.copy,
\* whose new SpecQueue no generator refers to
state_copy(st, fresh) ==
    [st EXCEPT !.spec = SpecState_copy(@, fresh), !.gen = NoGen]

\* the deque behind a context's queue
Q(c) == deques[ctx[c].spec.conditionals.q]

\* (mutant) the test of the solver's answer without its "not"
unsatCheckInverted(st) ==
    IF ~st.lazy /\ satisfiable(st.constraints)
    THEN [st EXCEPT !.spec.mispredicted = TRUE]
    ELSE st

\* the solver check both hooks make after adding constraints
unsatCheck(st) ==
    IF ~st.lazy /\ ~satisfiable(st.constraints)
    THEN [st EXCEPT !.spec.mispredicted = TRUE]
    ELSE st

\* age is falsy when it is None or 0
Truthy(age) == age # None /\ age # 0

\* (mutant) the window test off by one
oldEnoughAtWindow(age, window) == Truthy(age) /\ age >= window

\* (mutant) the window test one instruction late
oldEnoughLate(age, window) == Truthy(age) /\ age > window + 1

\* the loop test of tickSpecState
oldEnough(age, window) == Truthy(age) /\ age > window

\* the satisfiable() calls one evaluation of "LAZY_SOLVES not in
\* state.options and not state.solver.satisfiable()" makes
solverCalls(st) == IF st.lazy THEN 0 ELSE 1

\* (mutant) the age read before the loop is never read again
nextAgeStale(st, dq, age) == age

\* (mutant) the loop ends once a retirement has marked the context
nextAgeUnlessMarked(st, dq, age) ==
    IF st.spec.mispredicted THEN None ELSE ageOfOldest(st.spec.conditionals, dq)

\* the age the loop reads after a retirement
nextAge(st, dq, age) == ageOfOldest(st.spec.conditionals, dq)

\* tickSpecState's loop: retire while the oldest entry is older than the window
\* (n counts the conditions retired, logged is the age line 160 logged last,
\* age the age the loop test reads, checks the satisfiable() calls made)
RECURSIVE retireLoop(_, _, _, _, _, _)
retireLoop(st, dq, n, logged, age, checks) ==
    IF oldEnough(age, st.spec.window)
    THEN LET p == popOldest(dq)
             s1 == add_constraints(st, <<p.thing>>)
             s2 == unsatCheck(s1)
         IN IF p.err
            THEN [st |-> st, dq |-> dq, n |-> n, age |-> logged,
                  checks |-> checks, err |-> TRUE]
            ELSE retireLoop(s2, p.dq, n + 1, age, nextAge(s2, p.dq, age),
                            checks + solverCalls(s1))
    ELSE [st |-> st, dq |-> dq, n |-> n, age |-> logged, checks |-> checks,
          err |-> FALSE]

\* tickSpecState: the 'instruction' BP_BEFORE hook
tickSpecState(st, dq) ==
    LET s0 == [st EXCEPT !.spec = SpecState_tick(@)]
    IN retireLoop(s0, dq, 0, None, ageOfOldest(s0.spec.conditionals, dq), 0)

\* (mutant) the fence checks after every condition it pushes, as the tick does
RECURSIVE handleFencesEach(_, _)
handleFencesEach(st, dq) ==
    IF dq = <<>> THEN [st |-> st, dq |-> dq, n |-> 0, checks |-> 0]
    ELSE LET s1 == add_constraints(st, <<dq[1][1]>>)
             r == handleFencesEach(unsatCheck(s1), Tail(dq))
         IN [r EXCEPT !.n = @ + 1, !.checks = @ + solverCalls(s1)]

\* handleFences on an Imbe_Fence statement: the 'statement' BP_BEFORE hook
handleFences(st, dq) ==
    LET p == popAll(dq)
        s1 == add_constraints(st, p.things)
    IN [st |-> unsatCheck(s1), dq |-> p.dq, n |-> Len(p.things),
        checks |-> solverCalls(s1)]

\* (mutant) only the IMark's own address is looked up
inDirtyFirstOnly(addr, len, dirty) == len > 0 /\ addr \in dirty

\* the self-modifying-code test of an IMark covering addr .. addr+len-1
inDirty(addr, len, dirty) == \E subaddr \in 0..(len - 1) : subaddr + addr \in dirty

\* the IMarks (address, length, dirty set) on which the test comes out as hit
IMarks(hit) ==
    {m \in Addrs \X (0..MaxLen) \X (SUBSET Addrs) : inDirty(m[1], m[2], m[3]) = hit}

\* ---------------------------------------------------------------- steps
\* What the step just taken was: the statement kind (or the explorer's
\* operation), the context it ran on, the successor it made, the guard of a
\* conditional exit, what _handle_statement returned or raised, and how many
\* conditions the step's hook handed to the solver, and the age the tick
\* logged for the last condition it retired; for an IMark followed by its
\* address, the mark (address, length, dirty addresses); the number of
\* satisfiable() calls the step's hook made; for a popAll generator, the
\* things it has yielded so far.
NoMark == <<0, 0, {}>>

Step(op, c, e, guard, ret, n, age) ==
    [op |-> op, c |-> c, e |-> e, guard |-> guard, ret |-> ret, n |-> n,
     age |-> age, mark |-> NoMark, checks |-> 0, things |-> <<>>]

\* the caller dispatches statements on context c: a caller that stops on a
\* False return dispatches none once the context is reported dead-ended;
\* _handle_statement itself refuses no call
Running(c) == ctx[c].live /\ ~(ctx[c].deadended /\ ctx[c].stops)

FreeSlots == {e \in Slots : ~ctx[e].live}
FreeSlot == CHOOSE e \in FreeSlots : \A f \in FreeSlots : e <= f

\* one fresh state in slot 1 of maxCtx slots, every deque empty
InitSlots(maxCtx, windows, lazies) ==
    /\ \E w \in windows, lz \in lazies :
          ctx = [c \in 1..maxCtx |-> IF c = 1 THEN NewState(w, lz, 1) ELSE NoCtx]
    /\ deques = [r \in 0..maxCtx |-> <<>>]
    /\ last = Step("init", 1, 0, TrueC, "True", 0, None)

InitWith(maxWindow, lazies) == InitSlots(MaxCtx, 0..maxWindow, lazies)

\* (mutant) the path is never reported dead-ended
imarkReturnTrue(st) == "True"

\* what _handle_statement returns for an IMark once the hook has run
imarkReturn(st) == IF st.spec.mispredicted THEN "False" ELSE "True"

\* _handle_statement on an IMark, with the 'instruction' hook it fires: the
\* self-modifying-code test has come out as hit, the mark is recorded as mark
IMarkStep(c, maxIns, hit, mark) ==
    /\ Running(c)
    /\ \/ /\ hit
          /\ UNCHANGED <<ctx, deques>>
          /\ last' = [Step("imark", c, 0, TrueC, "SimReliftException", 0, None)
                         EXCEPT !.mark = mark]
       \/ /\ ~hit
          /\ ctx[c].spec.ins_executed < maxIns
          /\ LET r == tickSpecState(ctx[c], Q(c))
                 ret == IF r.err THEN "IndexError" ELSE imarkReturn(r.st)
             IN /\ ctx' = [ctx EXCEPT ![c] = [r.st EXCEPT !.deadended = ret # "True"]]
                /\ deques' = [deques EXCEPT ![ctx[c].spec.conditionals.q] = r.dq]
                /\ last' = [Step("imark", c, 0, TrueC, ret, r.n, r.age)
                               EXCEPT !.mark = mark, !.checks = r.checks]

\* an IMark of any address, length and dirty set
StmtIMark(c, maxIns) ==
    \E hit \in BOOLEAN : IMarks(hit) # {} /\ IMarkStep(c, maxIns, hit, NoMark)

\* an IMark whose address, length and dirty set the step records
StmtIMarkAt(c, maxIns) ==
    \E m \in Addrs \X (0..MaxLen) \X (SUBSET Addrs) :
       IMarkStep(c, maxIns, inDirty(m[1], m[2], m[3]), m)

\* (mutant) the guard queued on the continuing side, its negation on the exit
exitAppendsSwapped(dqs, exit_state, cont_state, branchcond) ==
    LET notbranchcond == Not(branchcond)
        er == exit_state.spec.conditionals.q
        cr == cont_state.spec.conditionals.q
        d1 == IF ~is_true(branchcond)
              THEN [dqs EXCEPT ![cr] = Append(@, <<branchcond, cont_state.spec.conditionals.ins_executed>>)]
              ELSE dqs
    IN IF ~is_true(notbranchcond)
       THEN [d1 EXCEPT ![er] = Append(@, <<notbranchcond, exit_state.spec.conditionals.ins_executed>>)]
       ELSE d1

\* the two appends of a conditional exit, on the heap of deques
exitAppends(dqs, exit_state, cont_state, branchcond) ==
    LET notbranchcond == Not(branchcond)
        er == exit_state.spec.conditionals.q
        cr == cont_state.spec.conditionals.q
        d1 == IF ~is_true(branchcond)
              THEN [dqs EXCEPT ![er] =
                       SpecQueue_append(exit_state.spec.conditionals, @, branchcond)]
              ELSE dqs
    IN IF ~is_true(notbranchcond)
       THEN [d1 EXCEPT ![cr] =
                SpecQueue_append(cont_state.spec.conditionals, @, notbranchcond)]
       ELSE d1

\* the history of an append
appended(st, cond) ==
    IF ~is_true(cond) THEN [st EXCEPT !.hist = Append(@, cond)] ELSE st

\* (mutant) add_successor's default
add_guard_default == TRUE

\* the add_guard argument _handle_statement passes for exit_state
add_guard == FALSE

\* successors.add_successor(exit_state, target, guard, jumpkind, add_guard=...):
\* the state registered
add_successor(exit_state, guard, with_guard) ==
    IF with_guard THEN add_constraints(exit_state, <<guard>>) ELSE exit_state

\* _handle_statement on a statement whose handler returns exit data, the
\* guard among guards
StmtExitOn(c, maxHist, guards) ==
    /\ Running(c)
    /\ FreeSlots # {}
    /\ Len(ctx[c].hist) < maxHist
    /\ \E guard \in guards :
          LET e == FreeSlot
              exit_state == state_copy(ctx[c], e)
              cont_state == ctx[c]
              copied == [deques EXCEPT ![e] = deques[cont_state.spec.conditionals.q]]
          IN /\ ctx' = [ctx EXCEPT ![e] = add_successor(appended(exit_state, guard),
                                                       guard, add_guard),
                                   ![c] = appended(cont_state, Not(guard))]
             /\ deques' = exitAppends(copied, exit_state, cont_state, guard)
             /\ last' = Step("exit", c, e, guard, "True", 0, None)

\* the guards that are not trivially true and whose negation is not either
NonTrivial == {g \in Cond : ~is_true(g) /\ ~is_true(Not(g))}

\* a conditional exit of any guard
StmtExit(c, maxHist) == StmtExitOn(c, maxHist, Cond)

\* the same when the explorer takes the successor away at once: only the
\* continuing context stays in the model
StmtExitAway(c, maxHist) ==
    /\ Running(c)
    /\ FreeSlots = {}
    /\ Len(ctx[c].hist) < maxHist
    /\ \E guard \in Cond :
          LET exit_state == state_copy(ctx[c], 0)
              cont_state == ctx[c]
              copied == [deques EXCEPT ![0] = deques[cont_state.spec.conditionals.q]]
          IN /\ ctx' = [ctx EXCEPT ![c] = appended(cont_state, Not(guard))]
             /\ deques' = [exitAppends(copied, exit_state, cont_state, guard)
                              EXCEPT ![0] = <<>>]
             /\ last' = Step("exit", c, 0, guard, "True", 0, None)

\* an Imbe_Fence MBE statement: the 'statement' hook flushes, the handler
\* returns no exit data
StmtFence(c) ==
    /\ Running(c)
    /\ LET r == handleFences(ctx[c], Q(c))
       IN /\ ctx' = [ctx EXCEPT ![c] = r.st]
          /\ deques' = [deques EXCEPT ![ctx[c].spec.conditionals.q] = r.dq]
          /\ last' = [Step("fence", c, 0, TrueC, "True", r.n, None)
                         EXCEPT !.checks = r.checks]

\* any other supported statement: no hook acts, no exit data
StmtOther(c) ==
    /\ Running(c)
    /\ UNCHANGED <<ctx, deques>>
    /\ last' = Step("other", c, 0, TrueC, "True", 0, None)

\* what _handle_statement does when stmt_handlers has no handler for the
\* statement's tag, with BYPASS_UNSUPPORTED_IRSTMT among the options or not
unsupportedReturn(bypass) ==
    IF bypass THEN "None" ELSE "UnsupportedIRStmtError"

\* a statement without a handler: no hook acts, nothing is dispatched
StmtUnsupported(c) ==
    /\ Running(c)
    /\ UNCHANGED <<ctx, deques>>
    /\ \E bypass \in BOOLEAN :
          last' = Step("unsupported", c, 0, TrueC, unsupportedReturn(bypass),
                       0, None)

\* (mutant) the generator yields the oldest thing and leaves it queued
popAllNextPeek(dq) ==
    IF dq # <<>> THEN [ret |-> "yield", thing |-> dq[1][1], dq |-> dq]
    ELSE [ret |-> "StopIteration", thing |-> TrueC, dq |-> dq]

\* one next() on SpecQueue.popAll's generator: the loop test, and the popleft
\* and yield of one round
popAllNext(dq) ==
    IF dq # <<>> THEN [ret |-> "yield", thing |-> dq[1][1], dq |-> Tail(dq)]
    ELSE [ret |-> "StopIteration", thing |-> TrueC, dq |-> dq]

\* the consumer holds a popAll generator over context c's queue, suspended at
\* its yield
Suspended(c) == ctx[c].gen.suspended

\* the consumer asks a popAll generator of context c for its next thing: the
\* suspended generator it holds if there is one, else a new one
GenNext(c) ==
    /\ ctx[c].live
    /\ LET r == popAllNext(Q(c))
           sofar == IF Suspended(c) THEN ctx[c].gen.things ELSE <<>>
           things == IF r.ret = "yield" THEN Append(sofar, r.thing) ELSE sofar
       IN /\ deques' = [deques EXCEPT ![ctx[c].spec.conditionals.q] = r.dq]
          /\ ctx' = [ctx EXCEPT ![c].gen =
                        IF r.ret = "yield"
                        THEN [suspended |-> TRUE, things |-> things]
                        ELSE NoGen]
          /\ last' = [Step("popAll", c, 0, TrueC, r.ret, Len(things), None)
                         EXCEPT !.things = things]

\* the consumer abandons the suspended popAll generator it holds: it is
\* closed at its yield and its loop runs no further round
GenClose(c) ==
    /\ ctx[c].live
    /\ Suspended(c)
    /\ ctx' = [ctx EXCEPT ![c].gen = NoGen]
    /\ last' = [Step("popAll", c, 0, TrueC, "GeneratorExit",
                     Len(ctx[c].gen.things), None)
                   EXCEPT !.things = ctx[c].gen.things]
    /\ UNCHANGED deques

\* the explorer duplicates a state
Copy(c) ==
    /\ ctx[c].live
    /\ FreeSlots # {}
    /\ LET e == FreeSlot
       IN /\ ctx' = [ctx EXCEPT ![e] = state_copy(ctx[c], e)]
          /\ deques' = [deques EXCEPT ![e] = deques[ctx[c].spec.conditionals.q]]
          /\ last' = Step("copy", c, e, TrueC, "True", 0, None)

\* the explorer discards a state
Prune(c) ==
    /\ ctx[c].live
    /\ ctx' = [ctx EXCEPT ![c] = NoCtx]
    /\ deques' = [deques EXCEPT ![c] = <<>>]
    /\ last' = Step("prune", c, 0, TrueC, "True", 0, None)

\* Forking contexts of one window size, run in every interleaving (without
\* LAZY_SOLVES).
Init == InitSlots(MaxCtx, {MaxWindow}, {FALSE})

Next ==
    \E c \in 1..MaxCtx :
       \/ StmtIMark(c, MaxIns)
       \/ StmtExit(c, MaxHist)
       \/ StmtExitAway(c, MaxHist)
       \/ StmtFence(c)
       \/ StmtOther(c)
       \/ StmtUnsupported(c)
       \/ Copy(c)
       \/ Prune(c)

Spec == Init /\ [][Next]_vars

\* One context followed through longer runs: every successor it registers
\* is taken over by the explorer before its next statement.
Init1 == InitWith(MaxWindow1, BOOLEAN)

Solo == ~ctx[2].live

StmtIMark1 == Solo /\ StmtIMark(1, MaxIns1)

StmtExit1 == Solo /\ StmtExit(1, MaxHist1)

StmtFence1 == Solo /\ StmtFence(1)

StmtOther1 == Solo /\ StmtOther(1)

StmtUnsupported1 == Solo /\ StmtUnsupported(1)

TakeSuccessor == Prune(2)

Next1 ==
    \/ StmtIMark1
    \/ StmtExit1
    \/ StmtFence1
    \/ StmtOther1
    \/ StmtUnsupported1
    \/ TakeSuccessor

Spec1 == Init1 /\ [][Next1]_vars

\* One context whose IMarks are followed by address, length and dirty set.
InitSMC == InitSlots(MaxCtx, {MaxWindow}, {FALSE})

StmtIMarkSMC == Solo /\ StmtIMarkAt(1, MaxIns)

StmtExitSMC == Solo /\ StmtExit(1, MaxHistSMC)

NextSMC ==
    \/ StmtIMarkSMC
    \/ StmtExitSMC
    \/ StmtFence1
    \/ StmtUnsupported1
    \/ TakeSuccessor

SpecSMC == InitSMC /\ [][NextSMC]_vars

\* Scenario C: a tree of conditional transfers with non-trivial guards, from
\* one context with an empty queue; no tick and no fence.
InitC == InitSlots(MaxCtxC, 0..MaxWindow, {FALSE})

NextC ==
    \E c \in 1..MaxCtxC :
       \/ StmtExitOn(c, MaxHist, NonTrivial)
       \/ StmtOther(c)
       \/ StmtUnsupported(c)

SpecC == InitC /\ [][NextC]_vars

\* Scenario D: one context of window WindowD, with or without LAZY_SOLVES,
\* its conditional exits of non-trivial guards.
InitD == InitSlots(MaxCtx, {WindowD}, BOOLEAN)

StmtIMarkD == Solo /\ StmtIMark(1, MaxInsD)

StmtExitD == Solo /\ StmtExitOn(1, MaxHistD, NonTrivial)

NextD ==
    \/ StmtIMarkD
    \/ StmtExitD
    \/ StmtFence1
    \/ StmtOther1
    \/ StmtUnsupported1
    \/ TakeSuccessor

SpecD == InitD /\ [][NextD]_vars

\* popAll's generator consumed one thing at a time, on one context whose
\* queue conditional exits fill; no tick and no fence.
InitGen == InitWith(MaxWindow, {FALSE})

GenNext1 == Solo /\ GenNext(1)

GenClose1 == Solo /\ GenClose(1)

StmtExitGen == Solo /\ StmtExit(1, MaxHistD)

NextGen ==
    \/ StmtExitGen
    \/ StmtUnsupported1
    \/ TakeSuccessor
    \/ GenNext1
    \/ GenClose1

SpecGen == InitGen /\ [][NextGen]_vars

\* One context under a caller that goes on dispatching statements whatever
\* _handle_statement returns.
InitAny ==
    /\ \E w \in 0..MaxWindow :
          ctx = [c \in 1..MaxCtx |->
                    IF c = 1 THEN [NewState(w, FALSE, 1) EXCEPT !.stops = FALSE]
                    ELSE NoCtx]
    /\ deques = [r \in 0..MaxCtx |-> <<>>]
    /\ last = Step("init", 1, 0, TrueC, "True", 0, None)

StmtIMarkAny == Solo /\ StmtIMark(1, MaxIns)

StmtExitAny == Solo /\ StmtExit(1, MaxHist)

NextAny ==
    \/ StmtIMarkAny
    \/ StmtExitAny
    \/ StmtFence1
    \/ StmtOther1
    \/ StmtUnsupported1
    \/ TakeSuccessor

SpecAny == InitAny /\ [][NextAny]_vars

\* ================================================================ claims
\* the conditions of queue entries, in order
Conds(dq) == [i \in 1..Len(dq) |-> dq[i][1]]

\* the entries of dq after the first k
Drop(dq, k) == SubSeq(dq, k + 1, Len(dq))

\* the deque behind context c's queue after the step
QP(c) == deques'[ctx'[c].spec.conditionals.q]

\* the step just taken ran a statement of context c and c is still there
Acted(c) == last'.c = c /\ last'.op \notin {"copy", "prune"} /\ ctx[c].live

\* how many real constraints the step gave context c
Gained(c) == Len(ctx'[c].constraints) - Len(ctx[c].constraints)

\* C1 (retirement timing): a step other than a fence turns queued conditions
\* into real constraints only if it is a tick, and then exactly the front
\* entries appended at counter t with t + window_size + 1 equal to the
\* counter the tick raised; every entry of age at most window_size is still
\* queued after the tick, and no entry older than window_size is.
C1_RetirementTiming ==
    [][\A c \in Slots :
         (Acted(c) /\ last'.op # "fence") =>
           LET k == Gained(c)
               now == ctx'[c].spec.ins_executed
               w == ctx[c].spec.window
           IN /\ k >= 0
              /\ k > 0 => last'.op = "imark" /\ now = ctx[c].spec.ins_executed + 1
              /\ \A i \in 1..k : Q(c)[i][2] + w + 1 = now
              /\ ctx'[c].constraints = ctx[c].constraints \o SubSeq(Conds(Q(c)), 1, k)
              /\ last'.op = "imark" =>
                   /\ QP(c) = Drop(Q(c), k)
                   /\ \A i \in 1..Len(QP(c)) : now - QP(c)[i][2] <= w]_vars

\* a tick retired the front entry at age window_size + 1 > 1 and left a
\* younger entry queued
C1_Witness ==
    /\ last.op = "imark" /\ last.n >= 1
    /\ ctx[1].spec.window >= 1
    /\ last.age = ctx[1].spec.window + 1
    /\ Q(1) # <<>>
    /\ ctx[1].spec.ins_executed - Q(1)[1][2] = ctx[1].spec.window

\* C2 (FIFO law): in every context the real constraints followed by the
\* conditions still queued are the conditions in the order they were
\* appended: none became a constraint before an earlier-appended one.
C2_FifoLaw ==
    \A c \in Slots :
       ctx[c].live => ctx[c].constraints \o Conds(Q(c)) = ctx[c].hist

\* two different conditions were appended; a fence made the first a real
\* constraint and a later tick the second, in that order
C2_Witness ==
    /\ Len(ctx[1].constraints) = 2 /\ Q(1) = <<>>
    /\ ctx[1].constraints = ctx[1].hist
    /\ ctx[1].constraints[1] # ctx[1].constraints[2]
    /\ last.op = "imark" /\ last.n = 1
    /\ ctx[1].spec.window >= 1

\* C3 (fence law): right after a fence statement the context's queue is
\* empty and its constraints are the ones before followed by every queued
\* condition in queue order, whatever their ages.
C3_FenceLaw ==
    [][\A c \in Slots :
         (Acted(c) /\ last'.op = "fence") =>
            /\ QP(c) = <<>>
            /\ ctx'[c].constraints = ctx[c].constraints \o Conds(Q(c))
            /\ last'.n = Len(Q(c))]_vars

\* a fence flushed two conditions, both younger than the window
C3_Witness ==
    /\ last.op = "fence" /\ last.n = 2
    /\ Q(1) = <<>>
    /\ Len(ctx[1].constraints) = 2
    /\ ctx[1].spec.ins_executed < ctx[1].spec.window

\* C4 (fork isolation): a copy (the explorer's, or the one a conditional exit
\* makes) has the original's window size, counters and queue entries as they
\* were at the copy; and whatever statement runs on one context, every other
\* context keeps its counters, its queue entries and its ageOfOldest.
C4_ForkIsolation ==
    [][/\ (last'.op \in {"copy", "exit"} /\ last'.e # 0) =>
            LET c == last'.c
                e == last'.e
            IN /\ ~ctx[e].live /\ ctx'[e].live
               /\ ctx'[e].spec.window = ctx[c].spec.window
               /\ ctx'[e].spec.ins_executed = ctx[c].spec.ins_executed
               /\ ctx'[e].spec.conditionals.ins_executed
                     = ctx[c].spec.conditionals.ins_executed
               /\ Len(QP(e)) >= Len(Q(c))
               /\ SubSeq(QP(e), 1, Len(Q(c))) = Q(c)
               /\ last'.op = "copy" => QP(e) = Q(c) /\ QP(c) = Q(c)
       /\ \A d \in Slots :
            (ctx[d].live /\ d # last'.c) =>
               /\ ctx'[d] = ctx[d]
               /\ QP(d) = Q(d)
               /\ ageOfOldest(ctx'[d].spec.conditionals, QP(d))
                     = ageOfOldest(ctx[d].spec.conditionals, Q(d))]_vars

\* an original and its clone, each with queued conditions, have since been
\* ticked and appended to differently
C4_Witness ==
    /\ ctx[1].live /\ ctx[2].live
    /\ Q(1) # <<>> /\ Q(2) # <<>>
    /\ Len(Q(1)) # Len(Q(2))
    /\ ctx[1].spec.ins_executed # ctx[2].spec.ins_executed
    /\ ageOfOldest(ctx[1].spec.conditionals, Q(1))
          # ageOfOldest(ctx[2].spec.conditionals, Q(2))

\* C5 (monotonic misprediction): no step on a context whose mispredicted
\* flag is true leaves it false.
C5_MonotonicMispredicted ==
    [][\A c \in Slots :
         (ctx[c].live /\ ctx[c].spec.mispredicted /\ ctx'[c].live)
            => ctx'[c].spec.mispredicted]_vars

\* a context a fence marked mispredicted was ticked afterwards (the tick
\* retired nothing, so the flag was set before it) and is still marked
C5_Witness ==
    /\ ctx[1].spec.mispredicted
    /\ last.op = "imark" /\ last.c = 1 /\ last.ret = "False" /\ last.n = 0

\* C6 (fork protocol): a conditional exit makes one new context, whatever its
\* guard; the new context's queue is the queue before the exit followed by
\* the guard (stamped with the counter) unless the guard is trivially true;
\* the continuing context's queue is the queue before followed by the negated
\* guard unless that is trivially true; otherwise the new context is the
\* current one as it was.
C6_ForkProtocol ==
    [][(last'.op = "exit" /\ last'.e # 0) =>
         LET c == last'.c
             e == last'.e
             g == last'.guard
             t == ctx[c].spec.conditionals.ins_executed
         IN /\ e # c /\ ~ctx[e].live /\ ctx'[e].live /\ ctx'[c].live
            /\ {d \in Slots : ctx'[d].live} = {d \in Slots : ctx[d].live} \cup {e}
            /\ QP(e) = Q(c) \o (IF is_true(g) THEN <<>> ELSE << <<g, t>> >>)
            /\ QP(c) = Q(c) \o (IF is_true(Not(g)) THEN <<>> ELSE << <<Not(g), t>> >>)
            /\ ctx'[c].spec = ctx[c].spec
            /\ ctx'[e].spec.window = ctx[c].spec.window
            /\ ctx'[e].spec.ins_executed = ctx[c].spec.ins_executed
            /\ ctx'[e].spec.conditionals.ins_executed = t]_vars

\* an exit with a non-trivial guard on a context with a queued condition:
\* the new context holds the old entry and the guard, the continuing one the
\* old entry and the negated guard
C6_Witness ==
    /\ last.op = "exit" /\ last.guard.v # 0
    /\ last.e # 0 /\ ctx[last.e].live
    /\ Len(Q(last.e)) = 2 /\ Len(Q(last.c)) = 2
    /\ Q(last.e)[1] = Q(last.c)[1]
    /\ Q(last.e)[2][1] = last.guard
    /\ Q(last.c)[2][1] = Not(last.guard)

\* C7 (the queue is the only way a guard binds): a conditional exit leaves the
\* real constraints of the continuing context as they were and gives the new
\* context the same ones; real constraints change only in a tick or a fence,
\* and what is added then are the conditions at the front of the context's
\* own queue.
C7_OnlyTheQueueBinds ==
    [][/\ last'.op = "exit" =>
            /\ ctx'[last'.c].constraints = ctx[last'.c].constraints
            /\ last'.e # 0 => ctx'[last'.e].constraints = ctx[last'.c].constraints
       /\ \A c \in Slots :
            (ctx[c].live /\ ctx'[c].live
               /\ ctx'[c].constraints # ctx[c].constraints) =>
               /\ last'.c = c /\ last'.op \in {"imark", "fence"}
               /\ last'.n >= 1 /\ last'.n <= Len(Q(c))
               /\ ctx'[c].constraints
                     = ctx[c].constraints \o SubSeq(Conds(Q(c)), 1, last'.n)]_vars

\* a context and the successor of its last exit: the exit's guard is queued in
\* the successor and no constraint of either is the guard or its negation,
\* while an earlier condition has become a constraint of both
C7_Witness ==
    /\ last.op = "exit" /\ last.guard.v # 0
    /\ last.e # 0 /\ ctx[last.e].live
    /\ Len(ctx[last.c].constraints) = 1
    /\ ctx[last.e].constraints = ctx[last.c].constraints
    /\ ctx[last.c].constraints[1] = FalseC
    /\ Q(last.e) # <<>> /\ Q(last.e)[Len(Q(last.e))][1] = last.guard

\* the hooks that hand conditions to the solver have just done so for c
Pushed(c) == last.c = c /\ last.op \in {"imark", "fence"} /\ last.n >= 1

\* C8 as stated (unsatisfiable retired path): whenever the conditions a tick
\* or a fence pushed leave the context's constraints unsatisfiable,
\* mispredicted is true when the handler returns, without an error; and
\* mispredicted is true only of a context whose constraints are unsatisfiable.
C8_AsStated ==
    \A c \in Slots :
       ctx[c].live =>
          /\ ctx[c].spec.mispredicted => ~satisfiable(ctx[c].constraints)
          /\ (Pushed(c) /\ ~satisfiable(ctx[c].constraints)) =>
                ctx[c].spec.mispredicted /\ last.ret \in {"True", "False"}

\* C8 (amended): the same for a state without the LAZY_SOLVES option; a state
\* with LAZY_SOLVES is never checked and never marked mispredicted.
C8_UnsatMarksMispredicted ==
    \A c \in Slots :
       ctx[c].live =>
          /\ ctx[c].spec.mispredicted => ~satisfiable(ctx[c].constraints)
          /\ ctx[c].lazy => ~ctx[c].spec.mispredicted
          /\ (~ctx[c].lazy /\ Pushed(c) /\ ~satisfiable(ctx[c].constraints)) =>
                ctx[c].spec.mispredicted /\ last.ret \in {"True", "False"}

\* without LAZY_SOLVES, a tick retired a literal that contradicts an earlier
\* constraint: the context is marked and the statement reported dead-ended
C8_Witness ==
    /\ ~ctx[1].lazy
    /\ Pushed(1) /\ last.op = "imark" /\ last.ret = "False"
    /\ Len(ctx[1].constraints) = 2
    /\ ctx[1].constraints[1].v # 0
    /\ ctx[1].constraints[2] = Not(ctx[1].constraints[1])
    /\ ctx[1].spec.mispredicted

\* C9 as stated (cancellation): no step on a context whose mispredicted flag
\* is true changes its queue's entries or its queue's counter.
C9_NoQueueMutationOnceMispredicted ==
    [][\A c \in Slots :
         (ctx[c].live /\ ctx[c].spec.mispredicted /\ ctx'[c].live) =>
            /\ QP(c) = Q(c)
            /\ ctx'[c].spec.conditionals.ins_executed
                  = ctx[c].spec.conditionals.ins_executed]_vars

\* C10 (ageOfOldest): it is None on an empty queue and otherwise the context's
\* instruction count minus the front entry's insertion tick; a tick that
\* retires nothing raises it by exactly one, and a statement between ticks
\* leaves it as it is while the queue is not empty.
C10_AgeOfOldest ==
    /\ [](\A c \in Slots :
            ctx[c].live =>
               ageOfOldest(ctx[c].spec.conditionals, Q(c))
                  = IF Q(c) = <<>> THEN None
                    ELSE ctx[c].spec.ins_executed - Q(c)[1][2])
    /\ [][\A c \in Slots :
            (Acted(c) /\ Q(c) # <<>> /\ last'.ret # "SimReliftException"
               /\ last'.op \in {"imark", "exit", "other"} /\ last'.n = 0) =>
               ageOfOldest(ctx'[c].spec.conditionals, QP(c))
                  = ageOfOldest(ctx[c].spec.conditionals, Q(c))
                       + (IF last'.op = "imark" THEN 1 ELSE 0)]_vars

\* window 3, a condition appended at tick 0: after the third tick its age is
\* 3 and it is still queued
C10_Witness ==
    /\ ctx[1].spec.window = 3
    /\ last.op = "imark" /\ last.ret = "True" /\ last.n = 0
    /\ ctx[1].spec.ins_executed = 3
    /\ Q(1) # <<>> /\ Q(1)[1][2] = 0
    /\ ageOfOldest(ctx[1].spec.conditionals, Q(1)) = 3
    /\ ctx[1].constraints = <<>>

\* C11: an IMark covering addr .. addr+len-1 raises the relift error exactly
\* when one of those addresses is in the dirty set, and the raise comes before
\* the tick: the context's counters, queue, constraints and misprediction
\* flag are as before and no successor is registered.
C11_SmcGuard ==
    [][last'.op = "imark" =>
          LET c == last'.c
              addr == last'.mark[1]
              len == last'.mark[2]
              dirty == last'.mark[3]
              covered == {a \in Addrs : addr <= a /\ a < addr + len}
              raised == last'.ret = "SimReliftException"
          IN /\ raised <=> (covered \cap dirty # {})
             /\ raised => /\ ctx' = ctx
                          /\ deques' = deques
             /\ ~raised => ctx'[c].spec.ins_executed = ctx[c].spec.ins_executed + 1]_vars

\* an IMark of two addresses raises for its last address alone, on a context
\* with a queued condition
C11_Witness ==
    /\ last.op = "imark"
    /\ last.ret = "SimReliftException"
    /\ last.mark = <<0, 2, {1}>>
    /\ Q(1) # <<>>
    /\ ctx[1].spec.ins_executed >= 1

\* the live contexts
Live == {c \in Slots : ctx[c].live}

\* C12 as stated: after two conditional transfers in a row there are four
\* live contexts, each holding exactly one queued condition.
C12_AsStated ==
    /\ (last.op = "exit" /\ Len(ctx[last.c].hist) = 2) => Cardinality(Live) = 4
    /\ (Cardinality(Live) = 4 /\ \A c \in Live : Len(ctx[c].hist) = 2)
          => \A c \in Live : Len(Q(c)) = 1

\* C12 (Scenario C): from one context with an empty queue, with non-trivial
\* guards and no retirement or fence, every live context holds one queued
\* condition per transfer on its path and the queues are distinct per path;
\* after two transfers in a row there are three live contexts, the two made
\* by the second transfer holding two conditions each and the other one one;
\* four live contexts never hold one condition each.
C12_ScenarioC ==
    /\ \A c \in Live :
          /\ Conds(Q(c)) = ctx[c].hist
          /\ ctx[c].constraints = <<>>
    /\ \A c, d \in Live : c # d => Conds(Q(c)) # Conds(Q(d))
    /\ (last.op = "exit" /\ Len(ctx[last.c].hist) = 2 /\ Cardinality(Live) = 3)
          => /\ Len(Q(last.c)) = 2
             /\ Q(last.c)[2][1] = Not(last.guard)
             /\ Len(Q(last.e)) = 2
             /\ Q(last.e)[2][1] = last.guard
             /\ Q(last.e)[1] = Q(last.c)[1]
             /\ \A d \in Live \ {last.c, last.e} : Len(Q(d)) = 1
    /\ Cardinality(Live) = 4 => Cardinality({c \in Live : Len(Q(c)) = 1}) <= 1

\* the root has made two transfers in a row: three live contexts
C12_Witness ==
    /\ last.op = "exit"
    /\ last.c = 1
    /\ Cardinality(Live) = 3
    /\ Len(Q(1)) = 2
    /\ Len(Q(2)) = 1
    /\ Len(Q(3)) = 2
    /\ Q(2)[1][1] = Not(Q(1)[1][1])

\* the ages of queue entries, oldest first, in context c
Ages(c) == [i \in 1..Len(Q(c)) |-> ctx[c].spec.conditionals.ins_executed - Q(c)[i][2]]

\* C13 as stated, its general part: whatever number of conditions a fence
\* flushes, the fence handler makes exactly one satisfiability check.
C13_AsStated ==
    [][\A c \in Slots :
         (Acted(c) /\ last'.op = "fence") =>
            /\ QP(c) = <<>>
            /\ last'.checks = 1]_vars

\* C13 (Scenario D): when a context meets a fence no queued condition is
\* older than its window (with window 4 the ages can be 1, 2 and 4, never 5);
\* the fence flushes every queued condition and makes one satisfiability
\* check after all of them are pushed, and none under LAZY_SOLVES: the flag
\* is set exactly when it was set or the check finds the whole of the new
\* constraints unsatisfiable.
C13_ScenarioD ==
    [][\A c \in Slots :
         (Acted(c) /\ last'.op = "fence") =>
            /\ \A i \in 1..Len(Q(c)) :
                  Ages(c)[i] >= 0 /\ Ages(c)[i] <= ctx[c].spec.window
            /\ QP(c) = <<>>
            /\ Gained(c) = Len(Q(c))
            /\ last'.checks = IF ctx[c].lazy THEN 0 ELSE 1
            /\ ctx'[c].spec.mispredicted =
                  (\/ ctx[c].spec.mispredicted
                   \/ ~ctx[c].lazy /\ ~satisfiable(ctx'[c].constraints))]_vars

\* a running context of window 4 holds three conditions of ages 4, 2 and 1:
\* the next statement can be a fence
C13_Witness ==
    /\ Running(1)
    /\ Solo
    /\ ~ctx[1].lazy
    /\ ctx[1].spec.window = 4
    /\ Ages(1) = <<4, 2, 1>>

\* seq ends with tail
EndsWith(seq, tail) ==
    /\ Len(tail) <= Len(seq)
    /\ SubSeq(seq, Len(seq) - Len(tail) + 1, Len(seq)) = tail

\* what a step of a popAll generator does whatever way it ends: a yield hands
\* out the front entry's condition and removes that entry, the end of the
\* iteration comes on the empty queue only
GenStepLaw(c) ==
    LET sofar == IF Suspended(c) THEN ctx[c].gen.things ELSE <<>>
    IN /\ last'.ret = "yield" =>
             /\ Q(c) # <<>>
             /\ last'.things = Append(sofar, Q(c)[1][1])
             /\ QP(c) = Tail(Q(c))
       /\ last'.ret = "StopIteration" =>
             /\ Q(c) = <<>>
             /\ QP(c) = <<>>
             /\ last'.things = sofar

\* C14 as stated: popAll yields the remaining conditions once each in FIFO
\* order, removing each as it is yielded, and the queue is empty afterward
\* even when the consumption is interrupted midway.
C14_AsStated ==
    [][last'.op = "popAll" =>
          /\ GenStepLaw(last'.c)
          /\ last'.ret \in {"StopIteration", "GeneratorExit"} => QP(last'.c) = <<>>]_vars

\* C14: popAll yields the remaining conditions once each in FIFO order,
\* removing each as it is yielded; the queue is empty once the generator is
\* exhausted, and when the consumption is interrupted midway the entries not
\* yet yielded stay queued in their order; the things yielded so far followed
\* by the queue are the latest of the conditions ever appended, so that a
\* yielded entry is in the queue no more.
C14_PopAllDrain ==
    /\ [][last'.op = "popAll" =>
             /\ GenStepLaw(last'.c)
             /\ last'.ret = "GeneratorExit" =>
                   /\ QP(last'.c) = Q(last'.c)
                   /\ last'.things = ctx[last'.c].gen.things]_vars
    /\ [](last.op = "popAll" =>
             EndsWith(ctx[last.c].hist, last.things \o Conds(Q(last.c))))
    /\ [](\A c \in Live :
             Suspended(c) =>
                EndsWith(ctx[c].hist, ctx[c].gen.things \o Conds(Q(c))))

\* a generator over three entries was abandoned after its first yield: two
\* entries are still queued
C14_Witness ==
    /\ last.op = "popAll"
    /\ last.ret = "GeneratorExit"
    /\ Len(last.things) = 1
    /\ Len(Q(1)) = 2
    /\ ctx[1].hist = last.things \o Conds(Q(1))

\* C15 (EmptyQueue never surfaces): no statement ends in a failed pop; a tick
\* or a fence pops no more entries than the queue holds and leaves the
\* others; and a fence on an empty queue completes without changing the
\* constraints.
C15_NoEmptyPop ==
    [][\A c \in Slots :
         Acted(c) =>
            /\ last'.ret # "IndexError"
            /\ last'.op \in {"imark", "fence"} =>
                  /\ last'.n <= Len(Q(c))
                  /\ QP(c) = Drop(Q(c), last'.n)
            /\ (last'.op = "fence" /\ Q(c) = <<>>) =>
                  /\ last'.ret = "True"
                  /\ last'.n = 0
                  /\ ctx'[c].constraints = ctx[c].constraints]_vars

\* a tick retired the two entries its queue held: the loop read the age of
\* an empty queue and stopped
C15_Witness ==
    /\ last.op = "imark"
    /\ last.n = 2
    /\ last.ret \in {"True", "False"}
    /\ Q(1) = <<>>
    /\ Len(ctx[1].constraints) = 2

\* C16 (the instruction counter advances only by ticks): in every state the
\* counter of a SpecState and the counter of its queue are equal; an IMark
\* that passes the self-modifying-code test raises both by one, every other
\* step leaves both as they were, and a copy starts with its original's.
C16_CountersAdvanceByTicks ==
    /\ [](\A c \in Slots :
             ctx[c].spec.ins_executed = ctx[c].spec.conditionals.ins_executed)
    /\ [][\A c \in Slots :
            LET ticked == /\ last'.c = c
                          /\ last'.op = "imark"
                          /\ last'.ret # "SimReliftException"
                by == IF ticked THEN 1 ELSE 0
            IN /\ (ctx[c].live /\ ctx'[c].live) =>
                     /\ ctx'[c].spec.ins_executed = ctx[c].spec.ins_executed + by
                     /\ ctx'[c].spec.conditionals.ins_executed =
                           ctx[c].spec.conditionals.ins_executed + by
               /\ (~ctx[c].live /\ ctx'[c].live) =>
                     /\ ctx'[c].spec.ins_executed = ctx[last'.c].spec.ins_executed
                     /\ ctx'[c].spec.conditionals.ins_executed =
                           ctx[last'.c].spec.conditionals.ins_executed]_vars

\* a second tick has run on a context with a queued condition
C16_Witness ==
    /\ last.op = "imark"
    /\ last.ret = "True"
    /\ ctx[1].spec.ins_executed = 2
    /\ ctx[1].spec.conditionals.ins_executed = 2
    /\ Q(1) # <<>>

Doomed(c, j) ==
    ~satisfiable(ctx[c].constraints \o SubSeq(Conds(Q(c)), 1, j))

\* a queued condition that will leave the constraints unsatisfiable is at
\* most window_size instructions old in every state, a tick retires it at age
\* window_size + 1
SpeculationBound(c) ==
    /\ \A j \in 1..Len(Q(c)) :
          Doomed(c, j) => Ages(c)[j] <= ctx[c].spec.window
    /\ (last.c = c /\ last.op = "imark" /\ last.n >= 1) =>
          last.age = ctx[c].spec.window + 1

\* C18 as stated (bounded speculation): a condition that leaves the
\* constraints unsatisfiable once applied is applied by the tick that makes
\* it window_size + 1 old, or by a fence before, and that tick or fence
\* leaves the misprediction flag true.
C18_AsStated ==
    /\ [](\A c \in Live : SpeculationBound(c))
    /\ [][\A c \in Slots :
            (Acted(c) /\ Gained(c) >= 1 /\ ~satisfiable(ctx'[c].constraints))
               => ctx'[c].spec.mispredicted]_vars

\* C18 (bounded speculation): a condition that leaves the constraints
\* unsatisfiable once applied is applied by the tick that makes it
\* window_size + 1 old, or by a fence before; on a state without LAZY_SOLVES
\* that tick or fence leaves the misprediction flag true and the tick returns
\* False, on a state with LAZY_SOLVES the flag stays false.
C18_BoundedSpeculation ==
    /\ [](\A c \in Live : SpeculationBound(c))
    /\ [][\A c \in Slots :
            (Acted(c) /\ Gained(c) >= 1 /\ ~satisfiable(ctx'[c].constraints)) =>
               /\ ctx'[c].spec.mispredicted = ~ctx[c].lazy
               /\ (last'.op = "imark" /\ ~ctx[c].lazy) => last'.ret = "False"]_vars

\* a condition appended at counter 1 with window 1 was retired, unsatisfiable,
\* by the tick to counter 3, which marked the context
C18_Witness ==
    /\ last.op = "imark"
    /\ last.ret = "False"
    /\ last.n = 1
    /\ last.age = 2
    /\ ctx[1].spec.window = 1
    /\ ctx[1].spec.ins_executed = 3
    /\ ctx[1].spec.mispredicted
    /\ ~satisfiable(ctx[1].constraints)

\* C19 (misprediction survives copying): whenever a context is copied, by the
\* explorer or as the exit_state of a conditional exit, the clone's
\* misprediction flag is true if the original's is.
C19_MispredictedSurvivesCopy ==
    [][(last'.op \in {"copy", "exit"} /\ last'.e # 0) =>
          (ctx[last'.c].spec.mispredicted => ctx'[last'.e].spec.mispredicted)]_vars

\* C20 (age bound): once tickSpecState has returned, and so at every branch
\* and fence statement, every queue entry's age lies between 0 and
\* window_size inclusive, in a context the tick marked mispredicted too.
C20_AgeBound ==
    \A c \in Live :
       \A i \in 1..Len(Q(c)) :
          /\ 0 <= Ages(c)[i]
          /\ Ages(c)[i] <= ctx[c].spec.window

\* a tick retired an entry, marked its context mispredicted and left a
\* younger entry queued
C20_Witness ==
    /\ last.op = "imark"
    /\ last.ret = "False"
    /\ last.n >= 1
    /\ ctx[1].spec.mispredicted
    /\ Len(Q(1)) = 1
    /\ Ages(1)[1] >= 1

====
